---- MODULE Spec2Model ----
(***************************************************************************)
(* Model of the analyze handler of remotion-replicator                     *)
(* (src/api/analyze.ts): the usage-quota check, the monthly reset and the  *)
(* usage increment, executed by concurrent requests against one persisted  *)
(* users row.  Every await of the handler is one step; the synchronous     *)
(* code between two awaits belongs to the step that resumes it.            *)
(***************************************************************************)
EXTENDS Integers, Sequences, FiniteSets, TLC

VARIABLES
    rowExists,        \* the users row of the account is present
    plan,             \* users.plan
    usage_count,      \* users.usage_count
    period_reset_at,  \* users.period_reset_at, an ISO date string <<y, m, d>>
    clock,            \* the server's wall clock when it was last read, an instant
    pc,               \* pc[r]: where execution r of the handler stands
    req,              \* req[r]: the request's method, authorization and body
    profile,          \* profile[r]: the row as read by the select
    now,              \* now[r]: const now = new Date()
    currentUsage,     \* currentUsage[r]: let currentUsage
    res,              \* res[r]: the response sent
    fx,               \* fx[r]: the effects execution r has had so far
    started,          \* number of handler executions begun
    successes,        \* number of 200 responses sent
    initial,          \* the users row at the start
    lib,              \* the call of the client library (canAnalyze, incrementUsage)
    view              \* the client's components: their input and what they computed

vars == <<rowExists, plan, usage_count, period_reset_at, clock, pc, req, profile,
          now, currentUsage, res, fx, started, successes, initial, lib, view>>

rowVars == <<rowExists, plan, usage_count, period_reset_at>>

----------------------------------------------------------------------------
(* Bounds of the model *)

MaxRequests == 2
MaxTicks == 1
DaysPerMonth == 2
StartYear == 2025
StartMonth == 11

Slots == {"a", "b"}
SeqSlot == "a"

----------------------------------------------------------------------------
(* Dates.  An instant is a number of days; every month has DaysPerMonth     *)
(* days.  getMonth is 0-based as in JavaScript, the ISO string 1-based.     *)

MonthsPerYear == 12

getFullYear(t) == (t \div DaysPerMonth) \div MonthsPerYear
getMonth(t) == (t \div DaysPerMonth) % MonthsPerYear
getDate(t) == (t % DaysPerMonth) + 1

\* new Date(year, month, day): a month index outside 0..11 carries into the year
NewDate(year, month, day) ==
    (year * MonthsPerYear + month) * DaysPerMonth + (day - 1)

\* date.toISOString()
toISOString(t) == <<getFullYear(t), getMonth(t) + 1, getDate(t)>>

\* new Date(isoString)
ParseDate(iso) == NewDate(iso[1], iso[2] - 1, iso[3])

\* new Date(now.getFullYear(), now.getMonth() + 1, 1)
NextResetNoAdvance(t) == NewDate(getFullYear(t), getMonth(t), 1)
NextReset(t) == NewDate(getFullYear(t), getMonth(t) + 1, 1)

----------------------------------------------------------------------------
(* Plans and limits *)

PLAN_LIMITS == [free |-> 3, starter |-> 30, pro |-> 150]
DefaultLimit == 3
Plans == {"free", "starter", "pro", "enterprise"}

\* PLAN_LIMITS[profile.plan] || 3
PlanLimit(p) == IF p \in DOMAIN PLAN_LIMITS THEN PLAN_LIMITS[p] ELSE DefaultLimit

\* if (now >= resetAt)
PeriodPassed(t, resetAt) == t >= resetAt

\* if (currentUsage >= limit)
LimitReachedStrict(usage, limit) == usage > limit
LimitReached(usage, limit) == usage >= limit

\* usage_count: currentUsage + 1
IncrementedSame(usage) == usage
Incremented(usage) == usage + 1

\* which await follows the reset check
AfterCheckSkipReset(t, resetAt) == "limit"
AfterCheck(t, resetAt) == IF PeriodPassed(t, resetAt) THEN "reset" ELSE "limit"

\* currentUsage = 0 after the reset update
UsageAfterResetKept(usage) == usage
UsageAfterReset(usage) == 0

----------------------------------------------------------------------------
(* Initial states *)

\* the last day of the month StartMonth of StartYear
clock0 == NewDate(StartYear, StartMonth, DaysPerMonth)
MaxClock == clock0 + MaxTicks

\* period_reset_at at the start: months ago, or one day ahead (passed or not
\* when a request reads the clock)
InitResets ==
    { clock0 - 2 * DaysPerMonth - 1, clock0 + 1 }

InitUsages(p) ==
    { PlanLimit(p) - 1, PlanLimit(p), PlanLimit(p) + 1 }

NoProfile == [plan |-> "free", usage_count |-> 0, period_reset_at |-> toISOString(0)]
NoRequest == [method |-> "POST", auth |-> "unread", body |-> "unread"]
NoResponse == [code |-> 0]
NoEffects == [aiCalls |-> 0, downloads |-> 0, reads |-> 0, resetWritten |-> FALSE,
              incremented |-> FALSE, inserted |-> FALSE, changed |-> FALSE]

NoCall == [pc |-> "idle", op |-> "none", calls |-> 0, profile |-> NoProfile, now |-> 0,
           ret |-> "none", threw |-> FALSE, writes |-> 0, resetWritten |-> FALSE,
           usage |-> 0, limit |-> "none"]
NoView == [component |-> "none"]

InitLocals ==
    /\ pc = [r \in Slots |-> "idle"]
    /\ req = [r \in Slots |-> NoRequest]
    /\ profile = [r \in Slots |-> NoProfile]
    /\ now = [r \in Slots |-> 0]
    /\ currentUsage = [r \in Slots |-> 0]
    /\ res = [r \in Slots |-> NoResponse]
    /\ fx = [r \in Slots |-> NoEffects]
    /\ started = 0
    /\ successes = 0
    /\ lib = NoCall
    /\ view = NoView

Init ==
    /\ clock = clock0
    /\ \/ /\ rowExists = TRUE
          /\ plan \in Plans
          /\ usage_count \in InitUsages(plan)
          /\ period_reset_at \in { toISOString(t) : t \in InitResets }
       \/ /\ rowExists = FALSE
          /\ plan = "free"
          /\ usage_count = 0
          /\ period_reset_at = toISOString(clock0)
    /\ initial = [usage_count |-> usage_count, period_reset_at |-> period_reset_at]
    /\ InitLocals

----------------------------------------------------------------------------
(* Responses *)

Preflight == [code |-> 200, kind |-> "preflight"]
Failure(code, error) == [code |-> code, kind |-> "error", error |-> error]
QuotaExceededSwapped(p, usage, limit) ==
    [code |-> 429, kind |-> "quota", error |-> "Usage limit exceeded",
     plan |-> p, usage |-> limit, limit |-> usage]
QuotaExceeded(p, usage, limit) ==
    [code |-> 429, kind |-> "quota", error |-> "Usage limit exceeded",
     plan |-> p, usage |-> usage, limit |-> limit]
Result(current, limit, p) ==
    [code |-> 200, kind |-> "result", current |-> current, limit |-> limit, plan |-> p]

Finish(r, response) ==
    /\ pc' = [pc EXCEPT ![r] = "done"]
    /\ res' = [res EXCEPT ![r] = response]

Goto(r, label) ==
    /\ pc' = [pc EXCEPT ![r] = label]
    /\ UNCHANGED res

----------------------------------------------------------------------------
(* The handler *)

\* The request arrives: CORS, method and Authorization header checks, up to
\* the await of supabase.auth.getUser(token).
Begin(r, method, auth) ==
    /\ pc[r] \in {"idle", "done"}
    /\ started' = started + 1
    /\ req' = [req EXCEPT ![r] =
          [method |-> method, auth |-> IF method = "POST" THEN auth ELSE "unread",
           body |-> "unread"]]
    /\ profile' = [profile EXCEPT ![r] = NoProfile]
    /\ now' = [now EXCEPT ![r] = 0]
    /\ currentUsage' = [currentUsage EXCEPT ![r] = 0]
    /\ fx' = [fx EXCEPT ![r] = NoEffects]
    /\ IF method = "OPTIONS" THEN Finish(r, Preflight)
       ELSE IF method # "POST" THEN Finish(r, Failure(405, "Method not allowed"))
       ELSE IF auth \in {"absent", "malformed"}
            THEN Finish(r, Failure(401, "Missing authorization header"))
       ELSE /\ pc' = [pc EXCEPT ![r] = "getUser"]
            /\ res' = [res EXCEPT ![r] = NoResponse]
    /\ UNCHANGED <<rowVars, clock, successes, initial, lib, view>>

\* supabase.auth.getUser(token) answers.
GetUserAcceptsAll(r) ==
    /\ pc[r] = "getUser"
    /\ Goto(r, "select")
    /\ UNCHANGED <<rowVars, clock, req, profile, now, currentUsage, fx, started,
                   successes, initial, lib, view>>
GetUser(r) ==
    /\ pc[r] = "getUser"
    /\ IF req[r].auth = "valid"
       THEN Goto(r, "select")
       ELSE Finish(r, Failure(401, "Invalid token"))
    /\ UNCHANGED <<rowVars, clock, req, profile, now, currentUsage, fx, started,
                   successes, initial, lib, view>>

\* The select of the users row is executed by the database.
SelectDefaultsToFree(r, readOk) ==
    /\ pc[r] = "select"
    /\ profile' = [profile EXCEPT ![r] =
          IF rowExists /\ readOk
          THEN [plan |-> plan, usage_count |-> usage_count,
                period_reset_at |-> period_reset_at]
          ELSE [plan |-> "free", usage_count |-> 0,
                period_reset_at |-> toISOString(MaxClock + 1)]]
    /\ fx' = [fx EXCEPT ![r].reads = @ + 1]
    /\ Goto(r, "check")
    /\ UNCHANGED <<rowVars, clock, req, now, currentUsage, started, successes,
                   initial, lib, view>>
Select(r, readOk) ==
    /\ pc[r] = "select"
    /\ IF rowExists /\ readOk
       THEN /\ profile' = [profile EXCEPT ![r] =
                  [plan |-> plan, usage_count |-> usage_count,
                   period_reset_at |-> period_reset_at]]
            /\ fx' = [fx EXCEPT ![r].reads = @ + 1]
            /\ Goto(r, "check")
       ELSE /\ Finish(r, Failure(404, "User profile not found"))
            /\ UNCHANGED <<profile, fx>>
    /\ UNCHANGED <<rowVars, clock, req, now, currentUsage, started, successes, initial, lib, view>>

\* The limit check and the body check, up to the next await.
AfterLimitNoBodyCheck(r, usage, body) ==
    LET limit == PlanLimit(profile[r].plan) IN
    /\ req' = [req EXCEPT ![r].body = IF LimitReached(usage, limit) THEN @ ELSE body]
    /\ IF LimitReached(usage, limit)
       THEN Finish(r, QuotaExceeded(profile[r].plan, usage, limit))
       ELSE IF body = "storagePath"
            THEN Goto(r, "download")
       ELSE Goto(r, "fetch")
AfterLimit(r, usage, body) ==
    LET limit == PlanLimit(profile[r].plan) IN
    /\ req' = [req EXCEPT ![r].body = IF LimitReached(usage, limit) THEN @ ELSE body]
    /\ IF LimitReached(usage, limit)
       THEN Finish(r, QuotaExceeded(profile[r].plan, usage, limit))
       ELSE IF body = "none"
            THEN Finish(r, Failure(400, "Missing videoUrl or storagePath"))
       ELSE IF body = "storagePath"
            THEN Goto(r, "download")
       ELSE Goto(r, "fetch")

\* The select has answered at instant t (time passes between the steps of a
\* request; the clock is read here only): the reset check and, when the period
\* has not passed, the limit and body checks.
CheckReset(r, body, t) ==
    /\ pc[r] = "check"
    /\ clock' = t
    /\ now' = [now EXCEPT ![r] = t]
    /\ currentUsage' = [currentUsage EXCEPT ![r] = profile[r].usage_count]
    /\ IF AfterCheck(t, ParseDate(profile[r].period_reset_at)) = "reset"
       THEN Goto(r, "reset") /\ UNCHANGED req
       ELSE AfterLimit(r, profile[r].usage_count, body)
    /\ UNCHANGED <<rowVars, profile, fx, started, successes, initial, lib, view>>

\* The reset update is executed by the database; then the limit and body checks.
ResetWrite(r, body) ==
    /\ pc[r] = "reset"
    /\ IF rowExists
       THEN /\ usage_count' = 0
            /\ period_reset_at' = toISOString(NextReset(now[r]))
       ELSE UNCHANGED <<usage_count, period_reset_at>>
    /\ fx' = [fx EXCEPT ![r].resetWritten = TRUE,
                        ![r].changed = @ \/ (usage_count' # usage_count)]
    /\ currentUsage' = [currentUsage EXCEPT ![r] = UsageAfterReset(@)]
    /\ AfterLimit(r, UsageAfterReset(currentUsage[r]), body)
    /\ UNCHANGED <<rowExists, plan, clock, profile, now, started, successes, initial, lib, view>>

\* supabase.storage.from('videos').download(storagePath) answers.
Download(r, ok) ==
    /\ pc[r] = "download"
    /\ fx' = [fx EXCEPT ![r].downloads = @ + 1]
    /\ IF ok THEN Goto(r, "generate")
       ELSE Finish(r, Failure(400, "Failed to download video from storage"))
    /\ UNCHANGED <<rowVars, clock, req, profile, now, currentUsage, started,
                   successes, initial, lib, view>>

\* fetch(videoUrl) answers, or throws.
Fetch(r, outcome) ==
    /\ pc[r] = "fetch"
    /\ fx' = [fx EXCEPT ![r].downloads = @ + 1]
    /\ IF outcome = "ok" THEN Goto(r, "generate")
       ELSE IF outcome = "notOk"
            THEN Finish(r, Failure(400, "Failed to fetch video from URL"))
       ELSE Finish(r, Failure(500, "fetch failed"))
    /\ UNCHANGED <<rowVars, clock, req, profile, now, currentUsage, started,
                   successes, initial, lib, view>>

\* ai.models.generateContent answers, or throws.
GenerateRetried(r, ok) ==
    /\ pc[r] = "generate"
    /\ fx' = [fx EXCEPT ![r].aiCalls = @ + 1]
    /\ IF ok THEN Goto(r, "increment")
       ELSE IF fx[r].aiCalls = 0 THEN Goto(r, "generate")
       ELSE Finish(r, Failure(500, "endpoint message"))
    /\ UNCHANGED <<rowVars, clock, req, profile, now, currentUsage, started,
                   successes, initial, lib, view>>
GenerateCountedFirst(r, ok) ==
    /\ pc[r] = "generate"
    /\ usage_count' = Incremented(currentUsage[r])
    /\ fx' = [fx EXCEPT ![r].aiCalls = @ + 1, ![r].incremented = TRUE,
                        ![r].changed = @ \/ (usage_count' # usage_count)]
    /\ IF ok THEN Goto(r, "insert")
       ELSE Finish(r, Failure(500, "endpoint message"))
    /\ UNCHANGED <<rowExists, plan, period_reset_at, clock, req, profile, now,
                   currentUsage, started, successes, initial, lib, view>>
Generate(r, ok) ==
    /\ pc[r] = "generate"
    /\ fx' = [fx EXCEPT ![r].aiCalls = @ + 1]
    /\ IF ok THEN Goto(r, "increment")
       ELSE Finish(r, Failure(500, "endpoint message"))
    /\ UNCHANGED <<rowVars, clock, req, profile, now, currentUsage, started,
                   successes, initial, lib, view>>

\* The usage update is executed by the database.
Increment(r) ==
    /\ pc[r] = "increment"
    /\ IF rowExists
       THEN usage_count' = Incremented(currentUsage[r])
       ELSE UNCHANGED usage_count
    /\ fx' = [fx EXCEPT ![r].incremented = TRUE,
                        ![r].changed = @ \/ (usage_count' # usage_count)]
    /\ Goto(r, "insert")
    /\ UNCHANGED <<rowExists, plan, period_reset_at, clock, req, profile, now,
                   currentUsage, started, successes, initial, lib, view>>

\* The analysis_history insert is executed; then the 200 response.
Insert(r) ==
    /\ pc[r] = "insert"
    /\ fx' = [fx EXCEPT ![r].inserted = TRUE]
    /\ Finish(r, Result(currentUsage[r] + 1, PlanLimit(profile[r].plan), profile[r].plan))
    /\ successes' = successes + 1
    /\ UNCHANGED <<rowVars, clock, req, profile, now, currentUsage, started, initial, lib, view>>

----------------------------------------------------------------------------
(* Specifications *)

Methods == {"OPTIONS", "GET", "POST"}
Auths == {"absent", "malformed", "invalid", "valid"}
Bodies == {"none", "storagePath", "videoUrl"}
FetchOutcomes == {"ok", "notOk", "throws"}

Next ==
    \/ \E r \in Slots, method \in Methods, auth \in Auths :
          started < MaxRequests /\ Begin(r, method, auth)
    \/ \E r \in Slots : GetUser(r)
    \/ \E r \in Slots, readOk \in BOOLEAN : Select(r, readOk)
    \/ \E r \in Slots, body \in Bodies, t \in clock..MaxClock : CheckReset(r, body, t)
    \/ \E r \in Slots, body \in Bodies : ResetWrite(r, body)
    \/ \E r \in Slots, ok \in BOOLEAN : Download(r, ok)
    \/ \E r \in Slots, outcome \in FetchOutcomes : Fetch(r, outcome)
    \/ \E r \in Slots, ok \in BOOLEAN : Generate(r, ok)
    \/ \E r \in Slots : Increment(r)
    \/ \E r \in Slots : Insert(r)

Spec == Init /\ [][Next]_vars

\* Valid requests executed one after another within one period, from a fresh
\* period, every collaborator answering.
InitSeq ==
    /\ clock = clock0
    /\ rowExists = TRUE
    /\ plan \in DOMAIN PLAN_LIMITS
    /\ usage_count = 0
    /\ period_reset_at = toISOString(MaxClock + 1)
    /\ initial = [usage_count |-> usage_count, period_reset_at |-> period_reset_at]
    /\ InitLocals

NextSeq ==
    \/ started < PlanLimit(plan) + 1 /\ Begin(SeqSlot, "POST", "valid")
    \/ GetUser(SeqSlot)
    \/ Select(SeqSlot, TRUE)
    \/ \E body \in {"storagePath", "videoUrl"}, t \in clock..MaxClock :
          CheckReset(SeqSlot, body, t)
    \/ Download(SeqSlot, TRUE)
    \/ Fetch(SeqSlot, "ok")
    \/ Generate(SeqSlot, TRUE)
    \/ Increment(SeqSlot)
    \/ Insert(SeqSlot)

SpecSeq == InitSeq /\ [][NextSeq]_vars

----------------------------------------------------------------------------
(* Properties *)

Done(r) == pc[r] = "done"
Succeeded(r) == Done(r) /\ res[r].kind = "result"
Failed(r) == Done(r) /\ res[r].code # 200

\* r has taken the reset check on the row it read
PastCheck(r) == fx[r].reads > 0 /\ pc[r] # "check"
\* r stands at or after the allowance check
PastReset(r) == PastCheck(r) /\ pc[r] # "reset"
\* the period had passed when r took the reset check
SawPeriodPassed(r) == PastCheck(r) /\ now[r] >= ParseDate(profile[r].period_reset_at)
\* r takes the step in which the database executes its reset update
ResetStep(r) == pc[r] = "reset" /\ pc'[r] # "reset"
\* r takes the step in which the database executes its usage update
IncrementStep(r) == pc[r] = "increment" /\ pc'[r] # "increment"

\* C1: on an account with exactly one unit of quota left in the running period,
\* two requests that both get as far as the quota decision end with exactly one
\* success (200) and one quota rejection (429), in every interleaving.
C1_ExactlyOneSuccess ==
    ( /\ rowExists
      /\ PlanLimit(plan) - initial.usage_count = 1
      /\ clock < ParseDate(initial.period_reset_at)
      /\ started = 2
      /\ \A r \in Slots : Done(r) /\ res[r].kind \in {"result", "quota"} )
    => \E r1, r2 \in Slots :
          r1 # r2 /\ res[r1].kind = "result" /\ res[r2].kind = "quota"

\* C2: within one period, once every request has finished, the persisted
\* usage_count is its initial value plus the number of successful requests.
C2_NoLostIncrement ==
    ( /\ \A r \in Slots : pc[r] \in {"idle", "done"}
      /\ period_reset_at = initial.period_reset_at )
    => usage_count = initial.usage_count + successes

\* C3: on an account that starts within its allowance, the persisted
\* usage_count never exceeds the allowance of the plan.
C3_UsageWithinAllowance ==
    (rowExists /\ initial.usage_count <= PlanLimit(plan))
    => usage_count <= PlanLimit(plan)

C3_Witness ==
    /\ usage_count = PlanLimit(plan)
    /\ initial.usage_count < PlanLimit(plan)
    /\ \E r \in Slots : Succeeded(r) /\ fx[r].changed /\ res[r].current = PlanLimit(plan)
    /\ \E r \in Slots : Done(r) /\ res[r].kind = "quota"

\* C4: usage_count never decreases while period_reset_at is unchanged, and a
\* step that takes it to 0 is the reset of a request whose now is at or after
\* the period_reset_at persisted at that moment.
C4_MonotoneWithinPeriod ==
    [][ /\ (period_reset_at' = period_reset_at) => (usage_count' >= usage_count)
        /\ (usage_count' = 0 /\ usage_count # 0) =>
              \E r \in Slots : ResetStep(r) /\ now[r] >= ParseDate(period_reset_at) ]_vars

\* C5: from a fresh period, the first allowance(plan) valid requests executed
\* one after another all succeed and leave usage_count at the number of requests
\* made; the next one is rejected with 429 and leaves usage_count at the allowance.
C5_SequentialQuota ==
    Done(SeqSlot) =>
        IF started <= PlanLimit(plan)
        THEN /\ Succeeded(SeqSlot)
             /\ res[SeqSlot].current = started
             /\ usage_count = started
             /\ successes = started
        ELSE /\ res[SeqSlot].code = 429
             /\ usage_count = PlanLimit(plan)
             /\ successes = PlanLimit(plan)

C5_Witness ==
    /\ plan = "pro"
    /\ started = PlanLimit(plan) + 1
    /\ Done(SeqSlot) /\ res[SeqSlot].code = 429
    /\ usage_count = PlanLimit(plan)

\* C6: a request whose usage after the reset check is at or over the limit is
\* answered 429 with the plan, that usage and the limit, has called neither the
\* storage nor the AI endpoint and has written nothing to the row.
C6_QuotaRejection ==
    \A r \in Slots :
        (PastReset(r) /\ currentUsage[r] >= PlanLimit(profile[r].plan)) =>
            /\ Done(r)
            /\ res[r].code = 429
            /\ res[r].plan = profile[r].plan
            /\ res[r].usage = currentUsage[r]
            /\ res[r].limit = PlanLimit(profile[r].plan)
            /\ fx[r].aiCalls = 0 /\ fx[r].downloads = 0
            /\ ~fx[r].incremented /\ ~fx[r].resetWritten /\ ~fx[r].changed

C6_Witness ==
    \E r \in Slots :
        /\ Done(r) /\ res[r].code = 429
        /\ res[r].usage > res[r].limit
        /\ usage_count = initial.usage_count

\* C7 (as stated): a request that ends in a non-200 response has not changed
\* the persisted usage_count.
C7_FailureLeavesUsage ==
    \A r \in Slots : Failed(r) => ~fx[r].changed

\* C7 (amended): usage_count changes only in a reset update or a usage update;
\* a request that ends in a non-200 response has made no usage update, and can
\* have changed usage_count only by the reset it took because its now was at or
\* after the period_reset_at it read; a request that has made its usage update
\* is answered 200.
C7_FailureOnlyResets ==
    /\ [][ (usage_count' # usage_count) =>
              \E r \in Slots : ResetStep(r) \/ IncrementStep(r) ]_vars
    /\ [](\A r \in Slots :
            /\ Failed(r) =>
                  /\ ~fx[r].incremented
                  /\ fx[r].changed => (fx[r].resetWritten /\ SawPeriodPassed(r))
            /\ fx[r].incremented => (pc[r] = "insert" \/ Succeeded(r)))

C7_Witness ==
    \E r \in Slots :
        /\ Failed(r) /\ res[r].code \in {400, 500}
        /\ fx[r].changed /\ fx[r].resetWritten
        /\ usage_count = 0 /\ initial.usage_count > 0

\* C8: a request that finds now >= period_reset_at is judged against a usage of
\* 0, whatever usage_count it read, and is not rejected for quota.
C8_ResetBeforeLimit ==
    \A r \in Slots :
        (PastReset(r) /\ SawPeriodPassed(r)) =>
            /\ currentUsage[r] = 0
            /\ ~(Done(r) /\ res[r].code = 429)

C8_Witness ==
    \E r \in Slots :
        /\ Succeeded(r) /\ SawPeriodPassed(r)
        /\ profile[r].usage_count >= PlanLimit(profile[r].plan)
        /\ res[r].current = 1

\* C9: a request that finds now >= period_reset_at has had its reset written
\* (usage_count 0, period_reset_at later than its now) by the time it stands at
\* the allowance check, and its later steps that end it in a failure leave the
\* row as it is.
C9_ResetPersistedFirst ==
    /\ [](\A r \in Slots : (PastReset(r) /\ SawPeriodPassed(r)) => fx[r].resetWritten)
    /\ [][ \A r \in Slots :
              ResetStep(r) =>
                  (usage_count' = 0 /\ ParseDate(period_reset_at') > now[r]) ]_vars
    /\ [][ \A r \in Slots :
              (fx[r].resetWritten /\ ~Done(r) /\ Failed(r)') =>
                  UNCHANGED <<usage_count, period_reset_at>> ]_vars

C9_Witness ==
    \E r \in Slots :
        /\ Failed(r) /\ res[r].code \in {400, 500}
        /\ fx[r].resetWritten /\ fx[r].aiCalls > 0
        /\ usage_count = 0 /\ initial.usage_count > 0
        /\ ParseDate(period_reset_at) > now[r]
        /\ period_reset_at # initial.period_reset_at

\* The first day of the calendar month after the month of iso, as an ISO date.
FirstOfFollowingMonth(iso) ==
    IF iso[2] = MonthsPerYear THEN <<iso[1] + 1, 1, 1>> ELSE <<iso[1], iso[2] + 1, 1>>

\* C10: a reset, however far its now is past the boundary, writes usage_count 0
\* and the first day of the calendar month after now (January of the next year
\* after December), which is later than now.
C10_ResetToNextMonth ==
    [][ \A r \in Slots :
           ResetStep(r) =>
               /\ usage_count' = 0
               /\ period_reset_at' = FirstOfFollowingMonth(toISOString(now[r]))
               /\ ParseDate(period_reset_at') > now[r] ]_vars

C10_Witness ==
    \E r \in Slots :
        /\ fx[r].resetWritten
        /\ toISOString(now[r])[2] = MonthsPerYear
        /\ now[r] - ParseDate(profile[r].period_reset_at) > DaysPerMonth
        /\ period_reset_at = <<getFullYear(now[r]) + 1, 1, 1>>

----------------------------------------------------------------------------
(* JavaScript values: a number, undefined or NaN *)

Num(n) == [t |-> "number", v |-> n]
Undefined == [t |-> "undefined"]
NaN == [t |-> "NaN"]

\* table[key], undefined when the table has no such key
Lookup(table, key) == IF key \in DOMAIN table THEN Num(table[key]) ELSE Undefined
\* a - b
JsMinus(a, b) == IF a.t = "number" /\ b.t = "number" THEN Num(a.v - b.v) ELSE NaN
\* a > b, a >= b, a < b: false when an operand is not a number
JsGreater(a, b) == a.t = "number" /\ b.t = "number" /\ a.v > b.v
JsAtLeast(a, b) == a.t = "number" /\ b.t = "number" /\ a.v >= b.v
JsLess(a, b) == a.t = "number" /\ b.t = "number" /\ a.v < b.v
\* a || b: b when a is undefined, NaN or 0
JsOr(a, b) == IF a.t = "number" /\ a.v # 0 THEN a ELSE b
\* Math.max(a, b)
MathMax(a, b) ==
    IF a.t = "number" /\ b.t = "number" THEN (IF a.v >= b.v THEN a ELSE b) ELSE NaN

----------------------------------------------------------------------------
(* The client library: canAnalyze and incrementUsage (lib/supabase.ts) *)

MaxLibCalls == 1

\* PLAN_LIMITS[profile.plan as keyof typeof PLAN_LIMITS]
LibLimit(p) == Lookup(PLAN_LIMITS, p)

\* if (now >= resetAt) of canAnalyze
LibPeriodPassedAlways(t, resetAt) == TRUE
LibPeriodPassed(t, resetAt) == t >= resetAt

\* const remaining = limit - profile.usage_count
LibRemaining(p, usage) == JsMinus(LibLimit(p), Num(usage))

\* A caller calls canAnalyze(userId) or incrementUsage(userId).
LibCall(op) ==
    /\ lib.pc \in {"idle", "done"}
    /\ lib' = [NoCall EXCEPT !.pc = IF op = "canAnalyze" THEN "select" ELSE "rpc",
                             !.op = op, !.calls = lib.calls + 1]
    /\ UNCHANGED <<rowVars, clock, pc, req, profile, now, currentUsage, res, fx,
                   started, successes, initial, view>>

\* getUserProfile: the select is executed; an error is thrown to the caller.
LibSelect(readOk) ==
    /\ lib.pc = "select"
    /\ lib' = IF rowExists /\ readOk
              THEN [lib EXCEPT !.pc = "check",
                               !.profile = [plan |-> plan, usage_count |-> usage_count,
                                            period_reset_at |-> period_reset_at]]
              ELSE [lib EXCEPT !.pc = "done", !.threw = TRUE]
    /\ UNCHANGED <<rowVars, clock, pc, req, profile, now, currentUsage, res, fx,
                   started, successes, initial, view>>

\* The select has answered at instant t: the reset check of canAnalyze and,
\* when the period has not passed, its answer.
LibCheck(t) ==
    /\ lib.pc = "check"
    /\ clock' = t
    /\ lib' = IF LibPeriodPassed(t, ParseDate(lib.profile.period_reset_at))
              THEN [lib EXCEPT !.pc = "reset", !.now = t]
              ELSE LET remaining == LibRemaining(lib.profile.plan, lib.profile.usage_count)
                   IN [lib EXCEPT !.pc = "done", !.now = t,
                           !.usage = lib.profile.usage_count,
                           !.limit = LibLimit(lib.profile.plan),
                           !.ret = [allowed |-> JsGreater(remaining, Num(0)),
                                    remaining |-> remaining]]
    /\ UNCHANGED <<rowVars, pc, req, profile, now, currentUsage, res, fx,
                   started, successes, initial, view>>

\* The reset update of canAnalyze is executed; then its answer.
LibReset ==
    /\ lib.pc = "reset"
    /\ IF rowExists
       THEN /\ usage_count' = 0
            /\ period_reset_at' = toISOString(NextReset(lib.now))
       ELSE UNCHANGED <<usage_count, period_reset_at>>
    /\ lib' = [lib EXCEPT !.pc = "done", !.writes = @ + 1, !.resetWritten = TRUE,
                          !.usage = 0,
                          !.limit = LibLimit(lib.profile.plan),
                          !.ret = [allowed |-> TRUE,
                                   remaining |-> LibLimit(lib.profile.plan)]]
    /\ UNCHANGED <<rowExists, plan, clock, pc, req, profile, now, currentUsage, res,
                   fx, started, successes, initial, view>>

\* The database function increment_usage: usage_count + 1 in one statement.
RpcIncrement(u) == u + 1

\* The rpc increment_usage is executed by the database, or answers an error.
LibRpc(ok) ==
    /\ lib.pc = "rpc"
    /\ IF ok /\ rowExists
       THEN /\ usage_count' = RpcIncrement(usage_count)
            /\ lib' = [lib EXCEPT !.pc = "done", !.writes = @ + 1]
       ELSE /\ UNCHANGED usage_count
            /\ lib' = [lib EXCEPT !.pc = "fallback", !.ret = "rpcError"]
    /\ UNCHANGED <<rowExists, plan, period_reset_at, clock, pc, req, profile, now,
                   currentUsage, res, fx, started, successes, initial, view>>

\* The fallback of incrementUsage: update({ usage_count: supabase.sql`...` }).
\* What supabase.sql is depends on the client library: the expression throws
\* (no such function), or the update is executed as usage_count + 1, or the
\* update is refused by the database and its error is dropped.
LibFallback(outcome) ==
    /\ lib.pc = "fallback"
    /\ IF outcome = "written" /\ rowExists
       THEN /\ usage_count' = usage_count + 1
            /\ lib' = [lib EXCEPT !.pc = "done", !.writes = @ + 1]
       ELSE /\ UNCHANGED usage_count
            /\ lib' = [lib EXCEPT !.pc = "done", !.threw = (outcome = "throws")]
    /\ UNCHANGED <<rowExists, plan, period_reset_at, clock, pc, req, profile, now,
                   currentUsage, res, fx, started, successes, initial, view>>

LibOps == {"canAnalyze", "incrementUsage"}
FallbackOutcomes == {"throws", "written", "refused"}

\* The handler requests of this specification carry a video.
LibBodies == Bodies \ {"none"}

\* One handler execution at a time and one caller of the library, on the same
\* users row.
NextLib ==
    \/ started < MaxRequests /\ Begin(SeqSlot, "POST", "valid")
    \/ GetUser(SeqSlot)
    \/ Select(SeqSlot, TRUE)
    \/ \E body \in LibBodies, t \in clock..MaxClock : CheckReset(SeqSlot, body, t)
    \/ \E body \in LibBodies : ResetWrite(SeqSlot, body)
    \/ Download(SeqSlot, TRUE)
    \/ Fetch(SeqSlot, "ok")
    \/ \E ok \in BOOLEAN : Generate(SeqSlot, ok)
    \/ Increment(SeqSlot)
    \/ Insert(SeqSlot)
    \/ \E op \in LibOps : lib.calls < MaxLibCalls /\ LibCall(op)
    \/ \E readOk \in BOOLEAN : LibSelect(readOk)
    \/ \E t \in clock..MaxClock : LibCheck(t)
    \/ LibReset
    \/ \E ok \in BOOLEAN : LibRpc(ok)
    \/ \E outcome \in FallbackOutcomes : LibFallback(outcome)

SpecLib == Init /\ [][NextLib]_vars

----------------------------------------------------------------------------
(* The limit and the remaining quota as the client computes them
   (App.tsx, AuthButton.tsx) and as the handler computes them *)

\* profile?.plan || 'free' and profile?.usage_count || 0 of the profile the
\* client holds: the users row, or null when there is none
ClientPlan == IF rowExists THEN plan ELSE "free"
ClientUsage == IF rowExists THEN usage_count ELSE 0

\* { free: 3, starter: 30, pro: 150 }[...] || 3
AppLimit(p) == JsOr(Lookup(PLAN_LIMITS, p), Num(DefaultLimit))

\* PLAN_LIMITS[profile?.plan || 'free'] of AuthButton.tsx
ButtonLimit(p) == Lookup(PLAN_LIMITS, p)

\* Math.max(0, limit - usage)
ButtonRemaining(limit, usage) == MathMax(Num(0), JsMinus(limit, Num(usage)))

Rendered(component, p, usage, limit, remaining, allowed) ==
    [component |-> component, plan |-> p, usage |-> usage, limit |-> limit,
     remaining |-> remaining, allowed |-> allowed]

\* const limit = PLAN_LIMITS[profile.plan] || 3 of the handler, for the row it read
HandlerLimit ==
    /\ rowExists
    /\ view' = Rendered("handler", plan, usage_count, Num(PlanLimit(plan)), Undefined,
                        ~LimitReached(usage_count, PlanLimit(plan)))
    /\ UNCHANGED <<rowVars, clock, pc, req, profile, now, currentUsage, res, fx,
                   started, successes, initial, lib>>

\* The usage gate at the head of handleAnalyze.
HandleAnalyzeGate ==
    /\ view' = Rendered("handleAnalyze", ClientPlan, ClientUsage, AppLimit(ClientPlan),
                        Undefined, ~JsAtLeast(Num(ClientUsage), AppLimit(ClientPlan)))
    /\ UNCHANGED <<rowVars, clock, pc, req, profile, now, currentUsage, res, fx,
                   started, successes, initial, lib>>

\* const canAnalyze = user && profile && (profile.usage_count < (... || 3))
AppCanAnalyze ==
    /\ view' = IF rowExists
               THEN Rendered("App", plan, usage_count, AppLimit(plan), Undefined,
                             JsLess(Num(usage_count), AppLimit(plan)))
               ELSE Rendered("App", "none", 0, Undefined, Undefined, FALSE)
    /\ UNCHANGED <<rowVars, clock, pc, req, profile, now, currentUsage, res, fx,
                   started, successes, initial, lib>>

\* UserMenu shows {remaining}/{limit}.
UserMenu ==
    /\ view' = LET limit == ButtonLimit(ClientPlan) IN
               Rendered("UserMenu", ClientPlan, ClientUsage, limit,
                        ButtonRemaining(limit, ClientUsage), TRUE)
    /\ UNCHANGED <<rowVars, clock, pc, req, profile, now, currentUsage, res, fx,
                   started, successes, initial, lib>>

\* UsageAlert: nothing without a profile; the alert is shown unless remaining > 0.
UsageAlert ==
    /\ view' = IF rowExists
               THEN LET limit == ButtonLimit(plan)
                        remaining == ButtonRemaining(limit, usage_count)
                    IN Rendered("UsageAlert", plan, usage_count, limit, remaining,
                                JsGreater(remaining, Num(0)))
               ELSE Rendered("UsageAlert", "none", 0, Undefined, Undefined, TRUE)
    /\ UNCHANGED <<rowVars, clock, pc, req, profile, now, currentUsage, res, fx,
                   started, successes, initial, lib>>

\* The places that compute a limit or a remaining quota, and canAnalyze of the
\* client library called on the same row.
NextUI ==
    \/ HandlerLimit
    \/ HandleAnalyzeGate
    \/ AppCanAnalyze
    \/ UserMenu
    \/ UsageAlert
    \/ lib.calls < MaxLibCalls /\ LibCall("canAnalyze")
    \/ \E readOk \in BOOLEAN : LibSelect(readOk)
    \/ \E t \in clock..MaxClock : LibCheck(t)
    \/ LibReset

SpecUI == Init /\ [][NextUI]_vars

----------------------------------------------------------------------------
(* AnalysisView: segmentation of the analysis document and the copy action.
   A document is a sequence of tokens. A token is one character ("LF" is the
   newline), or one of the words "FENCE" (three backticks), "markdown", "text", "prompt",
   "PROMPT": backticks occur in runs of three and the letters of these words occur only
   as the whole word. *)

MaxLines == 3

LF == "LF"
Fence == "FENCE"
Tokens == {LF, " ", "#", "1", ".", "x", Fence, "markdown", "text", "prompt", "PROMPT"}
Whitespace == {" ", LF}
Digits == {"1"}
FenceTags == {"markdown", "text"}
FallbackTitle == <<"Analysis Overview">>

\* the lines a document is made of
LineShapes ==
    { <<>>,
      <<"x">>,
      <<" ", "x", " ">>,
      <<"#", " ", "x">>,
      <<"#", "#", "#", " ", "PROMPT">>,
      <<"#", "#", "#", "#", " ", "x">>,
      <<"1", ".", " ", "prompt", " ", "x">>,
      <<"1", "1", ".", " ", "x">>,
      <<"1", ".", "x">>,
      <<Fence, "markdown">>,
      <<Fence>>,
      <<Fence, "text", " ", "x", Fence>>,
      <<Fence, "x", " ", Fence>> }

\* lines.join("\n")
RECURSIVE Join(_)
Join(lines) ==
    IF Len(lines) = 0 THEN <<>>
    ELSE IF Len(lines) = 1 THEN lines[1]
    ELSE lines[1] \o <<LF>> \o Join(Tail(lines))

Documents ==
    { Join(lines) : lines \in UNION { [1..n -> LineShapes] : n \in 0..MaxLines } }

Minimum(S) == CHOOSE x \in S : \A y \in S : x <= y
Maximum(S) == CHOOSE x \in S : \A y \in S : x >= y

\* the number of consecutive tokens of s from index i on that are in set
RECURSIVE Run(_, _, _)
Run(s, i, set) ==
    IF i <= Len(s) /\ s[i] \in set THEN 1 + Run(s, i + 1, set) ELSE 0

At(s, i) == IF i \in 1..Len(s) THEN s[i] ELSE "end"

\* the length of the match of (#{1,3} |\d+\. ) at index i of s, 0 without one
MarkerAnyDepth(s, i) ==
    LET hashes == Run(s, i, {"#"})
        digits == Run(s, i, Digits)
    IN IF hashes >= 1 /\ At(s, i + hashes) = " " THEN hashes + 1
       ELSE IF digits >= 1 /\ At(s, i + digits) = "." /\ At(s, i + digits + 1) = " "
            THEN digits + 2
       ELSE 0
Marker(s, i) ==
    LET hashes == Run(s, i, {"#"})
        digits == Run(s, i, Digits)
    IN IF hashes \in 1..3 /\ At(s, i + hashes) = " " THEN hashes + 1
       ELSE IF digits >= 1 /\ At(s, i + digits) = "." /\ At(s, i + digits + 1) = " "
            THEN digits + 2
       ELSE 0

\* the indexes at which /(?=\n#{1,3} |\n\d+\. )/g matches and split cuts: never
\* in front of the first token
Boundaries(s) == { i \in 2..Len(s) : s[i] = LF /\ Marker(s, i + 1) > 0 }

\* content.split(regex)
RECURSIVE SplitFrom(_, _)
SplitFrom(s, p) ==
    LET later == { i \in Boundaries(s) : i > p } IN
    IF later = {} THEN << SubSeq(s, p, Len(s)) >>
    ELSE << SubSeq(s, p, Minimum(later) - 1) >> \o SplitFrom(s, Minimum(later))
\* a split on the same pattern without the lookahead, which drops what it matches
RECURSIVE SplitConsuming(_, _)
SplitConsuming(s, p) ==
    LET later == { i \in Boundaries(s) : i >= p } IN
    IF later = {} THEN << SubSeq(s, p, Len(s)) >>
    ELSE << SubSeq(s, p, Minimum(later) - 1) >>
         \o SplitConsuming(s, Minimum(later) + 1 + Marker(s, Minimum(later) + 1))
splitConsuming(s) == SplitConsuming(s, 1)
split(s) == SplitFrom(s, 1)

\* s.trim()
trim(s) ==
    LET inked == { i \in 1..Len(s) : s[i] \notin Whitespace } IN
    IF inked = {} THEN <<>> ELSE SubSeq(s, Minimum(inked), Maximum(inked))

NonEmpty(s) == Len(s) > 0

\* rawSections.map(s => s.trim()).filter(s => s.length > 0)
Sections(content) ==
    LET rawSections == split(content) IN
    SelectSeq([i \in 1..Len(rawSections) |-> trim(rawSections[i])], NonEmpty)

\* the length of the match of /^(#{1,3} |\d+\. )(.*)/ in section, 0 without one:
\* the marker and the rest of the first line
TitleMatch(section) ==
    LET marker == Marker(section, 1) IN
    IF marker = 0 THEN 0
    ELSE marker + Run(section, marker + 1, Tokens \ {LF})

\* titleMatch ? titleMatch[2] : "Analysis Overview"
Title(section) ==
    IF TitleMatch(section) = 0 THEN FallbackTitle
    ELSE SubSeq(section, Marker(section, 1) + 1, TitleMatch(section))

\* section.replace(/^(#{1,3} |\d+\. )(.*)/, '').trim()
Body(section) == trim(SubSeq(section, TitleMatch(section) + 1, Len(section)))

\* body.match(/```(?:markdown|text)?([\s\S]*?)```/): the first fence, the tag
\* right after it if there is one, and the text up to the next fence
CodeBlockMatch(body) ==
    LET fences == { i \in 1..Len(body) : body[i] = Fence } IN
    IF Cardinality(fences) < 2 THEN [matched |-> FALSE, inner |-> <<>>]
    ELSE LET open == Minimum(fences)
             close == Minimum(fences \ {open})
             from == IF At(body, open + 1) \in FenceTags THEN open + 2 ELSE open + 1
         IN [matched |-> TRUE, inner |-> SubSeq(body, from, close - 1)]

toLowerCase(c) == IF c = "PROMPT" THEN "prompt" ELSE c

\* title.toLowerCase().includes('prompt')
IsPromptSectionCaseSensitive(title) == \E i \in 1..Len(title) : title[i] = "prompt"
IsPromptSection(title) == \E i \in 1..Len(title) : toLowerCase(title[i]) = "prompt"

\* isPromptSection && codeBlockMatch ? codeBlockMatch[1].trim() : section
CopyText(section) ==
    LET codeBlockMatch == CodeBlockMatch(Body(section)) IN
    IF IsPromptSection(Title(section)) /\ codeBlockMatch.matched
    THEN trim(codeBlockMatch.inner)
    ELSE section

\* AnalysisView is rendered with a document: useMemo computes the sections.
Render(content) ==
    /\ view = NoView
    /\ view' = [component |-> "AnalysisView", content |-> content,
                sections |-> Sections(content),
                titles |-> [i \in 1..Len(Sections(content)) |->
                                Title(Sections(content)[i])],
                copiedSection |-> 0, clipboard |-> <<>>]
    /\ UNCHANGED <<rowVars, clock, pc, req, profile, now, currentUsage, res, fx,
                   started, successes, initial, lib>>

\* The copy button of section index is clicked.
handleCopy(index) ==
    /\ view.component = "AnalysisView"
    /\ index \in 1..Len(view.sections)
    /\ view' = [view EXCEPT !.clipboard = CopyText(view.sections[index]),
                            !.copiedSection = index]
    /\ UNCHANGED <<rowVars, clock, pc, req, profile, now, currentUsage, res, fx,
                   started, successes, initial, lib>>

\* The timer of handleCopy fires: setCopiedSection(null).
CopiedTimeout ==
    /\ view.component = "AnalysisView"
    /\ view.copiedSection # 0
    /\ view' = [view EXCEPT !.copiedSection = 0]
    /\ UNCHANGED <<rowVars, clock, pc, req, profile, now, currentUsage, res, fx,
                   started, successes, initial, lib>>

InitDoc == Init /\ ~rowExists

NextDoc ==
    \/ view = NoView /\ \E content \in Documents : Render(content)
    \/ \E index \in 1..MaxLines : handleCopy(index)
    \/ CopiedTimeout

SpecDoc == InitDoc /\ [][NextDoc]_vars

----------------------------------------------------------------------------
(* App: handleAnalyze, from the usage gate to the cleanup, with the handler
   answering its request *)

NoCachedProfile == [present |-> FALSE, plan |-> "free", usage_count |-> 0]
\* the users row as the client last loaded it
CachedRow ==
    IF rowExists THEN [present |-> TRUE, plan |-> plan, usage_count |-> usage_count]
    ELSE NoCachedProfile

LimitMessage == "Usage limit reached. Please upgrade your plan."

\* const limit = {...}[profile?.plan || 'free'] || 3; usage >= limit
GateRefuses(cached) ==
    JsAtLeast(Num(cached.usage_count), AppLimit(cached.plan))
\* const canAnalyze = user && profile && (profile.usage_count < (... || 3))
ButtonAllows(cached) ==
    cached.present /\ JsLess(Num(cached.usage_count), AppLimit(cached.plan))

\* useState<AnalysisState>({ status: 'idle' }) and the profile of useAuth()
AppMount(loaded) ==
    /\ view = NoView
    /\ view' = [component |-> "App",
                profile |-> IF loaded THEN CachedRow ELSE NoCachedProfile,
                status |-> "idle", error |-> "none", result |-> FALSE,
                step |-> "idle", sent |-> 0, counted |-> FALSE]
    /\ UNCHANGED <<rowVars, clock, pc, req, profile, now, currentUsage, res, fx,
                   started, successes, initial, lib>>

\* handleAnalyze is called with a video, a user and a session: the usage gate,
\* up to the await of the upload.
handleAnalyze ==
    /\ view.component = "App"
    /\ view.step = "idle"
    /\ view' = IF GateRefuses(view.profile)
               THEN [view EXCEPT !.status = "error", !.error = LimitMessage,
                                 !.result = FALSE, !.counted = FALSE]
               ELSE [view EXCEPT !.status = "analyzing", !.error = "none",
                                 !.result = FALSE, !.counted = FALSE,
                                 !.step = "upload"]
    /\ UNCHANGED <<rowVars, clock, pc, req, profile, now, currentUsage, res, fx,
                   started, successes, initial, lib>>

\* The upload answers; without an error the request to /api/analyze is sent.
AppUpload(ok) ==
    /\ view.component = "App"
    /\ view.step = "upload"
    /\ view' = IF ok
               THEN [view EXCEPT !.step = "fetch", !.sent = started]
               ELSE [view EXCEPT !.status = "error", !.error = "Upload failed",
                                 !.step = "idle"]
    /\ UNCHANGED <<rowVars, clock, pc, req, profile, now, currentUsage, res, fx,
                   started, successes, initial, lib>>

\* The request of the App has not reached the handler yet.
AppRequestPending ==
    view.component = "App" /\ view.step = "fetch" /\ view.sent = started

\* The response of /api/analyze arrives: an error is thrown unless it is ok,
\* otherwise the state is set to complete with the result.
AppResponse ==
    /\ view.component = "App"
    /\ view.step = "fetch" /\ view.sent < started
    /\ pc[SeqSlot] = "done"
    /\ view' = IF res[SeqSlot].code = 200
               THEN [view EXCEPT !.status = "complete", !.result = TRUE,
                                 !.counted = TRUE, !.step = "refresh"]
               ELSE [view EXCEPT !.status = "error", !.error = res[SeqSlot].error,
                                 !.step = "idle"]
    /\ UNCHANGED <<rowVars, clock, pc, req, profile, now, currentUsage, res, fx,
                   started, successes, initial, lib>>

\* What the catch of handleAnalyze sets.
Caught(v, message) ==
    [v EXCEPT !.status = "error", !.error = message, !.result = FALSE, !.step = "idle"]

\* await refreshProfile() settles: the profile was loaded again, or was left as
\* it was, or the promise rejects and the catch of handleAnalyze runs.
AppRefresh(outcome) ==
    /\ view.component = "App"
    /\ view.step = "refresh"
    /\ view' = IF outcome = "loaded"
               THEN [view EXCEPT !.profile = CachedRow, !.step = "cleanup"]
               ELSE IF outcome = "kept"
                    THEN [view EXCEPT !.step = "cleanup"]
               ELSE Caught(view, "refresh failed")
    /\ UNCHANGED <<rowVars, clock, pc, req, profile, now, currentUsage, res, fx,
                   started, successes, initial, lib>>

\* await supabase.storage.from('videos').remove([filePath]) answers; its error,
\* if any, is in the answer and is not looked at.
AppCleanup ==
    /\ view.component = "App"
    /\ view.step = "cleanup"
    /\ view' = [view EXCEPT !.step = "idle"]
    /\ UNCHANGED <<rowVars, clock, pc, req, profile, now, currentUsage, res, fx,
                   started, successes, initial, lib>>

\* clearVideo, between two runs of handleAnalyze
clearVideo ==
    /\ view.component = "App"
    /\ view.step = "idle" /\ view.status # "idle"
    /\ view' = [view EXCEPT !.status = "idle", !.error = "none", !.result = FALSE,
                            !.counted = FALSE]
    /\ UNCHANGED <<rowVars, clock, pc, req, profile, now, currentUsage, res, fx,
                   started, successes, initial, lib>>

RefreshOutcomes == {"loaded", "kept", "throws"}

\* One browser tab: the App and the handler executions it requests. The body
\* of its request is { storagePath }.
NextApp ==
    \/ \E loaded \in BOOLEAN : AppMount(loaded)
    \/ started < MaxRequests /\ handleAnalyze
    \/ \E ok \in BOOLEAN : AppUpload(ok)
    \/ AppRequestPending /\ Begin(SeqSlot, "POST", "valid")
    \/ GetUser(SeqSlot)
    \/ \E readOk \in BOOLEAN : Select(SeqSlot, readOk)
    \/ \E t \in clock..MaxClock : CheckReset(SeqSlot, "storagePath", t)
    \/ ResetWrite(SeqSlot, "storagePath")
    \/ \E ok \in BOOLEAN : Download(SeqSlot, ok)
    \/ \E ok \in BOOLEAN : Generate(SeqSlot, ok)
    \/ Increment(SeqSlot)
    \/ Insert(SeqSlot)
    \/ AppResponse
    \/ \E outcome \in RefreshOutcomes : AppRefresh(outcome)
    \/ AppCleanup
    \/ clearVideo

SpecApp == Init /\ [][NextApp]_vars

----------------------------------------------------------------------------
(* Properties of the reset check and of the client library *)

\* the library call takes the step in which canAnalyze decides on the reset
LibCheckStep == lib.pc = "check" /\ lib'.pc # "check"
\* the library call takes the step in which the database executes its reset
LibResetStep == lib.pc = "reset" /\ lib'.pc # "reset"

\* C11: when the instant read by the reset check is before period_reset_at of
\* the row it read, the check writes nothing: usage_count and period_reset_at
\* of the stored row are left as they are and no reset update is issued, in
\* the handler and in canAnalyze of the client library alike.
C11_NoResetBeforePeriodEnd ==
    [][ /\ \A r \in Slots :
              /\ ( /\ pc[r] = "check" /\ pc'[r] # "check"
                   /\ now'[r] < ParseDate(profile[r].period_reset_at) )
                 => ( /\ pc'[r] # "reset"
                      /\ ~fx'[r].resetWritten
                      /\ UNCHANGED rowVars )
              /\ ResetStep(r) => now[r] >= ParseDate(profile[r].period_reset_at)
        /\ ( LibCheckStep /\ lib'.now < ParseDate(lib.profile.period_reset_at) )
           => ( /\ lib'.pc = "done"
                /\ lib'.writes = 0
                /\ ~lib'.resetWritten
                /\ UNCHANGED rowVars )
        /\ LibResetStep => lib.now >= ParseDate(lib.profile.period_reset_at)
      ]_vars

\* Both the handler and canAnalyze have taken the check before the period end.
C11_Witness ==
    /\ lib.op = "canAnalyze" /\ lib.pc = "done" /\ ~lib.threw
    /\ lib.now < ParseDate(lib.profile.period_reset_at)
    /\ lib.ret.allowed
    /\ PastCheck(SeqSlot)
    /\ now[SeqSlot] < ParseDate(profile[SeqSlot].period_reset_at)
    /\ ~fx[SeqSlot].resetWritten

\* allowance(plan) as the specification states it
Allowance(p) ==
    IF p = "free" THEN 3 ELSE IF p = "starter" THEN 30 ELSE IF p = "pro" THEN 150 ELSE 3

\* canAnalyze has answered
LibAnswered == lib.op = "canAnalyze" /\ lib.pc = "done" /\ ~lib.threw

\* C12: every place that computes the limit of an account yields 3 for free,
\* 30 for starter, 150 for pro and 3 for every other plan value: the handler,
\* the gate of handleAnalyze and canAnalyze of App, canAnalyze of the client
\* library, and UserMenu and UsageAlert of AuthButton.
C12_LimitEverywhere ==
    /\ ( view.component \in {"handler", "handleAnalyze", "UserMenu"}
         \/ (view.component \in {"App", "UsageAlert"} /\ view.plan # "none") )
       => view.limit = [t |-> "number", v |-> Allowance(view.plan)]
    /\ LibAnswered => lib.limit = [t |-> "number", v |-> Allowance(lib.profile.plan)]

\* C13: the remaining quota reported to callers is max(0, allowance - usage)
\* and never negative, for every plan and every usage >= 0: the value
\* returned by canAnalyze of the client library and the value shown by
\* UserMenu and UsageAlert.
C13_RemainingClamped ==
    LET Clamped(p, u) == IF Allowance(p) - u > 0 THEN Allowance(p) - u ELSE 0 IN
    /\ ( view.component = "UserMenu"
         \/ (view.component = "UsageAlert" /\ view.plan # "none") )
       => view.remaining = [t |-> "number", v |-> Clamped(view.plan, view.usage)]
    /\ LibAnswered
       => lib.ret.remaining = [t |-> "number", v |-> Clamped(lib.profile.plan, lib.usage)]

\* r takes the step in which its select of the users row answers
SelectStep(r) == pc[r] = "select" /\ pc'[r] # "select"

\* C14: an authenticated request whose users row is missing or cannot be read
\* is answered 404 'User profile not found' at once: it is not put to the
\* limit check (its response is neither the quota rejection nor a result), it
\* makes no download and no AI call and writes nothing to any row.
C14_MissingAccountRejected ==
    /\ [][ \A r \in Slots :
              (SelectStep(r) /\ (~rowExists \/ fx'[r].reads = 0))
              => ( /\ pc'[r] = "done"
                   /\ res'[r] = [code |-> 404, kind |-> "error",
                                 error |-> "User profile not found"]
                   /\ UNCHANGED rowVars ) ]_vars
    /\ [](\A r \in Slots :
              (req[r].auth = "valid" /\ fx[r].reads = 0 /\ pc[r] \notin {"getUser", "select"})
              => ( /\ pc[r] = "done" /\ res[r].code = 404
                   /\ fx[r].aiCalls = 0 /\ fx[r].downloads = 0
                   /\ ~fx[r].resetWritten /\ ~fx[r].incremented
                   /\ ~fx[r].inserted /\ ~fx[r].changed ))

\* One request was answered 404 because the read of an existing row failed,
\* the row being as it was.
C14_Witness ==
    \E r \in Slots :
        /\ Done(r) /\ req[r].auth = "valid" /\ res[r].code = 404
        /\ rowExists /\ usage_count = initial.usage_count
        /\ period_reset_at = initial.period_reset_at

\* C15: a POST whose Authorization header is absent or does not start with
\* 'Bearer ', or whose token getUser does not accept, is answered 401 before
\* the users row is read: no read, no reset, no download, no AI call and no
\* usage write is made for it.
C15_UnauthenticatedRejected ==
    \A r \in Slots :
        (req[r].method = "POST" /\ req[r].auth \in {"absent", "malformed", "invalid"})
        => ( /\ fx[r].reads = 0 /\ profile[r] = NoProfile
             /\ ~fx[r].resetWritten /\ ~fx[r].incremented /\ ~fx[r].inserted
             /\ fx[r].aiCalls = 0 /\ fx[r].downloads = 0 /\ ~fx[r].changed
             /\ pc[r] \in {"getUser", "done"}
             /\ (pc[r] = "getUser" => req[r].auth = "invalid")
             /\ (pc[r] = "done" => res[r].code = 401 /\ res[r].kind = "error") )

\* One request was rejected for its header and one for its token.
C15_Witness ==
    \E r, q \in Slots :
        /\ Done(r) /\ req[r].auth = "invalid" /\ res[r].code = 401
        /\ Done(q) /\ req[q].auth = "malformed" /\ res[q].code = 401

\* C16 as stated: an authenticated POST of an existing account whose body has
\* neither videoUrl nor storagePath is answered 400 and makes no download and
\* no AI call. (A body left "unread" was never looked at by the handler: the
\* response is the same whatever it holds, a body with neither field included.)
C16_MissingInputIs400 ==
    \A r \in Slots :
        (Done(r) /\ fx[r].reads > 0 /\ req[r].body \in {"none", "unread"})
        => (res[r].code = 400 /\ fx[r].downloads = 0 /\ fx[r].aiCalls = 0)

\* C16 amended: the body is looked at only after the reset check and the limit
\* check. With quota left, a body with neither field is answered 400 'Missing
\* videoUrl or storagePath'; with the quota used up the request is answered
\* 429 whatever its body. In both cases there is no download, no AI call, no
\* usage update and no history insert.
C16_MissingInputAfterQuota ==
    \A r \in Slots :
        /\ req[r].body = "none"
           => ( /\ Done(r)
                /\ res[r] = [code |-> 400, kind |-> "error",
                             error |-> "Missing videoUrl or storagePath"]
                /\ currentUsage[r] < PlanLimit(profile[r].plan) )
        /\ (PastReset(r) /\ req[r].body = "unread")
           => ( /\ Done(r) /\ res[r].code = 429
                /\ currentUsage[r] >= PlanLimit(profile[r].plan) )
        /\ (fx[r].reads > 0 /\ req[r].body \in {"none", "unread"})
           => ( /\ fx[r].downloads = 0 /\ fx[r].aiCalls = 0
                /\ ~fx[r].incremented /\ ~fx[r].inserted )

\* A request with neither field was answered 400 after writing the reset.
C16_Witness ==
    \E r \in Slots :
        /\ Done(r) /\ req[r].body = "none" /\ res[r].code = 400
        /\ fx[r].resetWritten

\* C17: a handler execution calls the generative-AI endpoint at most once and
\* never again after a failure; when the call fails the response is the 500
\* failure carrying the endpoint's message, and neither the usage update nor
\* the history insert is made.
C17_OneCallNoRetry ==
    \A r \in Slots :
        /\ fx[r].aiCalls <= 1
        /\ fx[r].aiCalls = 1 => pc[r] \in {"increment", "insert", "done"}
        /\ (fx[r].aiCalls = 1 /\ Done(r) /\ res[r].kind # "result")
           => ( /\ res[r] = [code |-> 500, kind |-> "error", error |-> "endpoint message"]
                /\ ~fx[r].incremented /\ ~fx[r].inserted )
        /\ (fx[r].incremented \/ fx[r].inserted) => fx[r].aiCalls = 1

\* The one call of a request failed and the request was answered 500.
C17_Witness ==
    \E r \in Slots :
        /\ Done(r) /\ fx[r].aiCalls = 1 /\ res[r].code = 500
        /\ rowExists /\ usage_count = initial.usage_count

\* C18: when the rpc increment_usage fails, incrementUsage surfaces the
\* failure to its caller and makes no other write of usage_count: it never
\* goes on to a separate update.
C18_RpcFailureSurfaced ==
    (lib.op = "incrementUsage" /\ lib.ret = "rpcError")
    => (lib.pc = "done" /\ lib.threw /\ lib.writes = 0)

----------------------------------------------------------------------------
(* Properties of the segmentation and of the copy action *)

\* 1-3 '#' and a space, or a decimal number, '.' and a space, stand at index i
HeadingAt(s, i, h) ==
    /\ \A j \in 0..(h - 1) : At(s, i + j) = "#"
    /\ At(s, i + h) = " "
NumberAt(s, i, d) ==
    /\ \A j \in 0..(d - 1) : At(s, i + j) \in Digits
    /\ At(s, i + d) = "." /\ At(s, i + d + 1) = " "
\* the length of that prefix, 0 when there is none
PrefixLength(s, i) ==
    IF \E h \in 1..3 : HeadingAt(s, i, h)
    THEN 1 + CHOOSE h \in 1..3 : HeadingAt(s, i, h)
    ELSE IF \E d \in 1..Len(s) : NumberAt(s, i, d)
         THEN 2 + CHOOSE d \in 1..Len(s) : NumberAt(s, i, d)
    ELSE 0

\* the document holds a newline immediately followed by such a prefix
HasBoundary(content) ==
    \E i \in 1..Len(content) : content[i] = LF /\ PrefixLength(content, i + 1) > 0

Rendered19 == view.component = "AnalysisView" /\ ~HasBoundary(view.content)

\* C19 as stated: a document without a boundary is segmented into exactly one
\* section, which is the whole document and has the title 'Analysis Overview'.
C19_OneFallbackSection ==
    Rendered19
    => ( /\ Len(view.sections) = 1
         /\ view.sections[1] = view.content
         /\ view.titles[1] = <<"Analysis Overview">> )

\* C19 amended: a document without a boundary that holds anything but
\* whitespace is segmented into exactly one section, the trimmed document; its
\* title is 'Analysis Overview' unless the trimmed document itself begins with
\* a heading or number prefix, and then it is the rest of that first line. A
\* document of whitespace only is segmented into no section at all.
C19_OneTrimmedSection ==
    Rendered19
    => LET inked == { i \in 1..Len(view.content) : view.content[i] \notin {" ", LF} }
           first == CHOOSE i \in inked : \A j \in inked : i <= j
           last == CHOOSE i \in inked : \A j \in inked : i >= j
           whole == SubSeq(view.content, first, last)
           prefix == PrefixLength(whole, 1)
           lineEnd == CHOOSE e \in prefix..Len(whole) :
                          /\ \A j \in (prefix + 1)..e : whole[j] # LF
                          /\ At(whole, e + 1) \in {LF, "end"}
       IN IF inked = {} THEN view.sections = <<>>
          ELSE /\ view.sections = <<whole>>
               /\ view.titles[1] = IF prefix = 0 THEN <<"Analysis Overview">>
                                   ELSE SubSeq(whole, prefix + 1, lineEnd)

\* A document of several lines without a boundary was segmented into one
\* section that takes its title from the prefix of its first line.
C19_Witness ==
    /\ Rendered19
    /\ Len(view.sections) = 1
    /\ view.titles[1] # <<"Analysis Overview">>
    /\ \E i \in 1..Len(view.content) : view.content[i] = LF
    /\ view.sections[1] # view.content

\* C20: the copy action of a section yields the trimmed inner text of the
\* fenced block of the section exactly when the title of the section contains
\* 'prompt' in any case and its body holds a fenced block (with or without the
\* tag markdown or text); in every other case, a prompt title without a block
\* and a block under another title included, it yields the whole trimmed
\* chunk, title line and all.
C20_CopyYield ==
    (view.component = "AnalysisView" /\ view.copiedSection # 0)
    => LET section == view.sections[view.copiedSection]
           title == view.titles[view.copiedSection]
           body == Body(section)
           promptTitled == \E i \in 1..Len(title) : title[i] \in {"prompt", "PROMPT"}
           fences == { i \in 1..Len(body) : body[i] = Fence }
           open == CHOOSE i \in fences : \A j \in fences : i <= j
           close == CHOOSE i \in fences \ {open} : \A j \in fences \ {open} : i <= j
           tagged == At(body, open + 1) \in {"markdown", "text"}
           inner == SubSeq(body, IF tagged THEN open + 2 ELSE open + 1, close - 1)
       IN IF promptTitled /\ Cardinality(fences) >= 2
          THEN view.clipboard = trim(inner)
          ELSE view.clipboard = section

\* The block of a section titled PROMPT was copied, without its tag and its
\* surrounding whitespace.
C20_Witness ==
    /\ view.component = "AnalysisView" /\ view.copiedSection # 0
    /\ \E i \in 1..Len(view.titles[view.copiedSection]) :
           view.titles[view.copiedSection][i] = "PROMPT"
    /\ view.clipboard = <<"x">>
    /\ Len(view.sections) > 1

\* the sections one after the other, sep between two of them
RECURSIVE Concatenated(_, _)
Concatenated(sections, sep) ==
    IF Len(sections) = 0 THEN <<>>
    ELSE IF Len(sections) = 1 THEN sections[1]
    ELSE sections[1] \o sep \o Concatenated(Tail(sections), sep)

\* s without its spaces and newlines
Inked(s) == SelectSeq(s, LAMBDA c : c \notin {" ", LF})

\* C21 as stated: the sections, in order, each with its marker and title line
\* in front of its body (that is, each chunk as segmentation kept it), put
\* together again give the trimmed document, whether the newline of each
\* boundary is put back between two sections or not.
C21_RoundTrip ==
    view.component = "AnalysisView"
    => \/ Concatenated(view.sections, <<LF>>) = trim(view.content)
       \/ Concatenated(view.sections, <<>>) = trim(view.content)

\* C21 amended: segmentation keeps every character of the document other than
\* whitespace, in order: the sections put together again equal the document up
\* to spaces and newlines. What is dropped is the whitespace at the two ends
\* of each chunk, the newline of the boundary included; inside a section
\* nothing is dropped, and no section is empty or starts or ends with
\* whitespace.
C21_RoundTripUpToWhitespace ==
    view.component = "AnalysisView"
    => /\ Inked(Concatenated(view.sections, <<>>)) = Inked(view.content)
       /\ \A i \in 1..Len(view.sections) :
             LET section == view.sections[i] IN
             /\ Len(section) > 0
             /\ section[1] \notin {" ", LF} /\ section[Len(section)] \notin {" ", LF}
             /\ \E from \in 1..Len(view.content) :
                   section = SubSeq(view.content, from, from + Len(section) - 1)

\* A document of two sections with a blank line in front of the second
\* heading: the blank line is gone from the sections.
C21_Witness ==
    /\ view.component = "AnalysisView"
    /\ Len(view.sections) = 2
    /\ Concatenated(view.sections, <<LF>>) # trim(view.content)
    /\ \E i \in 1..(Len(view.content) - 1) : view.content[i] = LF /\ view.content[i + 1] = LF

----------------------------------------------------------------------------
(* Properties of the App *)

\* what the handler would answer to a valid request of the account arriving
\* now: it accepts unless, after its reset check, usage has reached the limit
ServerWouldAccept ==
    /\ rowExists
    /\ LET usage == IF clock >= ParseDate(period_reset_at) THEN 0 ELSE usage_count
       IN usage < PlanLimit(plan)

\* the Analyze button is disabled because of the usage of the cached profile
ButtonDisabledByUsage ==
    /\ view.component = "App"
    /\ view.profile.present
    /\ ~ButtonAllows(view.profile)

\* handleAnalyze refuses to send
GateRefusal ==
    /\ view.component = "App" /\ view.step = "idle"
    /\ view'.step = "idle" /\ view'.status = "error" /\ view'.error = LimitMessage
    /\ view' # view

\* C22: the usage gate of the App never stops a request that the handler
\* would accept: whenever the button is disabled because the cached profile
\* has usage_count >= limit, or handleAnalyze refuses with 'Usage limit
\* reached', the handler would answer 429 to that request at that moment, also
\* when period_reset_at has passed.
C22_GateNeverStricterThanServer ==
    /\ [](ButtonDisabledByUsage => ~ServerWouldAccept)
    /\ [][GateRefusal => ~ServerWouldAccept]_vars

\* C23: once /api/analyze has answered ok, handleAnalyze ends with the status
\* complete and the result kept, whatever refreshProfile and the cleanup do;
\* a run takes the status from idle to analyzing and then to complete or to
\* error, and never from complete to error.
C23_CompleteIsKept ==
    /\ [](( view.component = "App" /\ view.counted /\ view.step # "fetch" )
          => (view.status = "complete" /\ view.result))
    /\ [][ ( view.component = "App" /\ view.step # "idle" /\ view.status = "complete" )
           => view'.status = "complete" ]_vars

====
